---------------------------- MODULE Spec2Model ----------------------------
(***************************************************************************)
(* lindera-server (src/src/main.rs): startup of main (argument resolution  *)
(* into a TokenizerConfig, Tokenizer::with_config, bind) and the           *)
(* POST /tokenize handler, run by several requests at once against the one *)
(* Arc<Tokenizer>.                                                          *)
(*                                                                         *)
(* The engine (lindera) and the transport (axum/hyper) are outside the     *)
(* repository.  The engine is a table fixed at construction: for each text *)
(* it says what tokenize / format / serde_json::from_str do with it.       *)
(***************************************************************************)
EXTENDS Integers, FiniteSets, Sequences, TLC

VARIABLES
    features,     \* cargo features of the build: the compiled-in dictionary kinds
    args,         \* Args::parse()
    mpc,          \* position of main
    config,       \* let mut config = TokenizerConfig::default()
    exitErr,      \* the LinderaErrorKind main returned with ("none" while running)
    constructed,  \* number of calls of Tokenizer::with_config
    tokenizer,    \* Arc<Tokenizer>: the one engine instance
    bound,        \* axum::Server::bind(&addr) has happened
    rpc,          \* per request: position in the extractor / handler
    body,         \* per request: the body received
    calls,        \* per request: how often each stage ran
    response      \* per request: what was sent back

vars == <<features, args, mpc, config, exitErr, constructed, tokenizer, bound,
          rpc, body, calls, response>>

mainVars == <<features, args, mpc, config, exitErr, constructed, tokenizer, bound>>
reqVars == <<rpc, body, calls, response>>

-----------------------------------------------------------------------------
(* Bounds and program constants *)

MaxReq == 2

ContentLimit == 1024 * 5000

Requests == 1 .. MaxReq

None == "None"

\* #[cfg(feature = ...)] arms of the dict-type match
FeatureKinds == {"ipadic", "unidic", "ko-dic", "cc-cedict"}

DefaultArgs ==
    [host |-> "0.0.0.0", dict_type |-> "ipadic", dict |-> None,
     user_dict |-> None, user_dict_type |-> None, mode |-> "normal"]

HostArgs == {"0.0.0.0", "not-an-ip"}
DictTypeArgs == FeatureKinds \cup {"local", "jumandic"}
PathArgs == {None, "/path"}
UserDictTypeArgs == {None, "csv", "bin", "binary"}
ModeArgs == {"normal", "search", "decompose", "fast"}

AllArgs ==
    [host : HostArgs, dict_type : DictTypeArgs, dict : PathArgs,
     user_dict : PathArgs, user_dict_type : UserDictTypeArgs, mode : ModeArgs]

\* number of parameters in which a differs from the defaults
Differs(a) ==
    Cardinality({f \in DOMAIN DefaultArgs : a[f] # DefaultArgs[f]})

-----------------------------------------------------------------------------
(* Configuration resolution: the three matches of main *)

Err == "Err"

DefaultConfig ==
    [dict_type |-> "Ipadic", dict_path |-> None, user_dict_path |-> None,
     user_dict_type |-> "Csv", mode |-> "Normal"]

\* match args.dict_type.as_str(): the DictionaryType, or Err for the `_` arm
DictTypeOf(feats, s) ==
    CASE s = "ipadic" /\ "ipadic" \in feats -> "Ipadic"
      [] s = "unidic" /\ "unidic" \in feats -> "Unidic"
      [] s = "ko-dic" /\ "ko-dic" \in feats -> "Kodic"
      [] s = "cc-cedict" /\ "cc-cedict" \in feats -> "Cedict"
      [] s = "local" -> "LocalDictionary"
      [] OTHER -> Err

\* the "local" arm alone sets config.dict_path
DictPathOf(s, dict) == IF s = "local" THEN dict ELSE DefaultConfig.dict_path

UserDictTypeOfCsvOnly(o) ==
    CASE o = None -> "Csv"
      [] o = "csv" -> "Csv"
      [] o = "bin" -> "Csv"
      [] OTHER -> Err

\* match args.user_dict_type
UserDictTypeOf(o) ==
    CASE o = None -> "Csv"
      [] o = "csv" -> "Csv"
      [] o = "bin" -> "Binary"
      [] OTHER -> Err

ModeOfDistinct(s) ==
    CASE s = "normal" -> "Normal"
      [] s = "search" -> "Search"
      [] s = "decompose" -> "Decompose"
      [] OTHER -> Err

ModeOfLenient(s) ==
    CASE s = "search" -> "Decompose"
      [] s = "decompose" -> "Decompose"
      [] OTHER -> "Normal"

\* match args.mode.as_str(); "Decompose" is Mode::Decompose(Penalty::default())
ModeOf(s) ==
    CASE s = "normal" -> "Normal"
      [] s = "search" -> "Decompose"
      [] s = "decompose" -> "Decompose"
      [] OTHER -> Err

\* lines 90-151 as one function: the config handed to with_config, or Err
Resolve(feats, a) ==
    IF \/ DictTypeOf(feats, a.dict_type) = Err
       \/ UserDictTypeOf(a.user_dict_type) = Err
       \/ ModeOf(a.mode) = Err
    THEN [ok |-> FALSE, config |-> DefaultConfig]
    ELSE [ok |-> TRUE,
          config |-> [dict_type |-> DictTypeOf(feats, a.dict_type),
                      dict_path |-> DictPathOf(a.dict_type, a.dict),
                      user_dict_path |-> a.user_dict,
                      user_dict_type |-> UserDictTypeOf(a.user_dict_type),
                      mode |-> ModeOf(a.mode)]]

-----------------------------------------------------------------------------
(* The engine and the bodies *)

BodyLens == {ContentLimit - 1, ContentLimit, ContentLimit + 1}

\* a body: its Content-Length and whether its bytes are valid UTF-8
Bodies == {b \in [len : BodyLens, utf8 : BOOLEAN] : b.utf8 \/ b.len < ContentLimit}

NoBody == [len |-> 0, utf8 |-> TRUE]

\* what the engine does with a text (a valid body, named by its length):
\*   "tokenize_err"  tokenizer.tokenize returns Err
\*   "format_err"    tokenize returns tokens, format(tokens, Json) returns Err
\*   "not_json"      format returns a String that serde_json::from_str rejects
\*   "json"          format returns a JSON document
Outcomes == {"tokenize_err", "format_err", "not_json", "json"}

EngineDicts == [BodyLens -> Outcomes]

NoTokenizer == [config |-> DefaultConfig, dict |-> [l \in BodyLens |-> "none"]]

NoCalls == [decode |-> 0, tokenize |-> 0, format |-> 0, parse |-> 0]
NoResponse == [status |-> 0, kind |-> "none", of |-> NoBody, error |-> "none"]

-----------------------------------------------------------------------------
(* main *)

InitWith(featureSets, argSet) ==
    /\ features \in featureSets
    /\ args \in argSet
    /\ mpc = "dict_type"
    /\ config = DefaultConfig
    /\ exitErr = "none"
    /\ constructed = 0
    /\ tokenizer = NoTokenizer
    /\ bound = FALSE
    /\ rpc = [r \in Requests |-> "idle"]
    /\ body = [r \in Requests |-> NoBody]
    /\ calls = [r \in Requests |-> NoCalls]
    /\ response = [r \in Requests |-> NoResponse]

\* // dictionary type
MatchDictType ==
    /\ mpc = "dict_type"
    /\ LET k == DictTypeOf(features, args.dict_type) IN
         IF k = Err
         THEN /\ mpc' = "exit_err"
              /\ exitErr' = "Args"
              /\ UNCHANGED config
         ELSE /\ config' = [config EXCEPT !.dict_type = k,
                                          !.dict_path = DictPathOf(args.dict_type, args.dict)]
              /\ mpc' = "user_dict_type"
              /\ UNCHANGED exitErr
    /\ UNCHANGED <<features, args, constructed, tokenizer, bound, reqVars>>

\* // user dictionary path, // user dictionary type
MatchUserDictType ==
    /\ mpc = "user_dict_type"
    /\ LET u == UserDictTypeOf(args.user_dict_type) IN
         IF u = Err
         THEN /\ config' = [config EXCEPT !.user_dict_path = args.user_dict]
              /\ mpc' = "exit_err"
              /\ exitErr' = "Args"
         ELSE /\ config' = [config EXCEPT !.user_dict_path = args.user_dict,
                                          !.user_dict_type = u]
              /\ mpc' = "mode"
              /\ UNCHANGED exitErr
    /\ UNCHANGED <<features, args, constructed, tokenizer, bound, reqVars>>

MatchModeFallThrough ==
    /\ mpc = "mode"
    /\ LET m == ModeOf(args.mode) IN
         /\ config' = [config EXCEPT !.mode = IF m = Err THEN @ ELSE m]
         /\ mpc' = "create_tokenizer"
         /\ UNCHANGED exitErr
    /\ UNCHANGED <<features, args, constructed, tokenizer, bound, reqVars>>

\* // mode
MatchMode ==
    /\ mpc = "mode"
    /\ LET m == ModeOf(args.mode) IN
         IF m = Err
         THEN /\ mpc' = "exit_err"
              /\ exitErr' = "Args"
              /\ UNCHANGED config
         ELSE /\ config' = [config EXCEPT !.mode = m]
              /\ mpc' = "create_tokenizer"
              /\ UNCHANGED exitErr
    /\ UNCHANGED <<features, args, constructed, tokenizer, bound, reqVars>>

\* let tokenizer = Tokenizer::with_config(config)?;
\* with_config is the engine's: it fails, or builds an engine from the config
CreateTokenizer ==
    /\ mpc = "create_tokenizer"
    /\ constructed' = constructed + 1
    /\ \/ /\ mpc' = "exit_err"
          /\ exitErr' = "Engine"
          /\ UNCHANGED tokenizer
       \/ /\ \E d \in EngineDicts : tokenizer' = [config |-> config, dict |-> d]
          /\ mpc' = "parse_addr"
          /\ UNCHANGED exitErr
    /\ UNCHANGED <<features, args, config, bound, reqVars>>

\* IpAddr::from_str: of the hosts of the model, "0.0.0.0" alone parses
IpAddrFromStr(host) == IF host = "0.0.0.0" THEN host ELSE Err

\* let ip = IpAddr::from_str(host.as_str()).unwrap();
ParseAddr ==
    /\ mpc = "parse_addr"
    /\ mpc' = IF IpAddrFromStr(args.host) = Err THEN "panicked" ELSE "bind"
    /\ UNCHANGED <<features, args, config, exitErr, constructed, tokenizer, bound, reqVars>>

\* axum::Server::bind(&addr): binds, or panics when the address cannot be bound
Bind ==
    /\ mpc = "bind"
    /\ \/ /\ bound' = TRUE
          /\ mpc' = "serving"
       \/ /\ mpc' = "panicked"
          /\ UNCHANGED bound
    /\ UNCHANGED <<features, args, config, exitErr, constructed, tokenizer, reqVars>>

-----------------------------------------------------------------------------
(* POST /tokenize *)

Status200 == 200
Status413 == 413

RejectsFrom(len) == len > ContentLimit + 1

\* ContentLengthLimit<Bytes, { 1024 * 5_000 }>: the extractor rejects a request
\* whose Content-Length is larger than the limit
ContentLengthRejects(len) == len > ContentLimit

ErrorJson(b, what) == [status |-> Status200, kind |-> "error", of |-> b, error |-> what]
ValueJson(b) == [status |-> Status200, kind |-> "json", of |-> b, error |-> "none"]
Rejection(b) == [status |-> Status413, kind |-> "rejection", of |-> b, error |-> "none"]

Bump(c, stage) == [c EXCEPT ![stage] = @ + 1]

\* a request arrives on the bound socket and the extractors run
Arrive(r) ==
    /\ bound
    /\ rpc[r] = "idle"
    /\ \E b \in Bodies :
         /\ body' = [body EXCEPT ![r] = b]
         /\ IF ContentLengthRejects(b.len)
            THEN /\ rpc' = [rpc EXCEPT ![r] = "rejected"]
                 /\ response' = [response EXCEPT ![r] = Rejection(b)]
            ELSE /\ rpc' = [rpc EXCEPT ![r] = "handler"]
                 /\ UNCHANGED response
    /\ UNCHANGED <<mainVars, calls>>

DecodeLossy(r) ==
    /\ rpc[r] = "handler"
    /\ calls' = [calls EXCEPT ![r] = Bump(@, "decode")]
    /\ rpc' = [rpc EXCEPT ![r] = "decoded"]
    /\ UNCHANGED <<mainVars, body, response>>

\* let text = match String::from_utf8(bytes.to_vec())
Decode(r) ==
    /\ rpc[r] = "handler"
    /\ calls' = [calls EXCEPT ![r] = Bump(@, "decode")]
    /\ IF body[r].utf8
       THEN /\ rpc' = [rpc EXCEPT ![r] = "decoded"]
            /\ UNCHANGED response
       ELSE /\ rpc' = [rpc EXCEPT ![r] = "done"]
            /\ response' = [response EXCEPT ![r] = ErrorJson(body[r], "utf8")]
    /\ UNCHANGED <<mainVars, body>>

TokenizeCallGuarded(r) ==
    /\ rpc[r] = "decoded"
    /\ \A q \in Requests : rpc[q] # "tokenizing"
    /\ rpc' = [rpc EXCEPT ![r] = "tokenizing"]
    /\ calls' = [calls EXCEPT ![r] = Bump(@, "tokenize")]
    /\ UNCHANGED <<mainVars, body, response>>

\* tokenizer.tokenize(text.as_str()) is entered: &self through the Arc, no guard
TokenizeCall(r) ==
    /\ rpc[r] = "decoded"
    /\ rpc' = [rpc EXCEPT ![r] = "tokenizing"]
    /\ calls' = [calls EXCEPT ![r] = Bump(@, "tokenize")]
    /\ UNCHANGED <<mainVars, body, response>>

TokenizeReturnScratch(r) ==
    /\ rpc[r] = "tokenizing"
    /\ IF tokenizer.dict[body[r].len] = "tokenize_err"
       THEN /\ rpc' = [rpc EXCEPT ![r] = "done"]
            /\ response' = [response EXCEPT ![r] = ErrorJson(body[r], "tokenize")]
       ELSE /\ rpc' = [rpc EXCEPT ![r] = "tokenized"]
            /\ UNCHANGED response
    /\ tokenizer' = [tokenizer EXCEPT !.dict[body[r].len] = "tokenize_err"]
    /\ UNCHANGED <<features, args, mpc, config, exitErr, constructed, bound, body, calls>>

\* tokenizer.tokenize returns: let tokens = match ...
TokenizeReturn(r) ==
    /\ rpc[r] = "tokenizing"
    /\ IF tokenizer.dict[body[r].len] = "tokenize_err"
       THEN /\ rpc' = [rpc EXCEPT ![r] = "done"]
            /\ response' = [response EXCEPT ![r] = ErrorJson(body[r], "tokenize")]
       ELSE /\ rpc' = [rpc EXCEPT ![r] = "tokenized"]
            /\ UNCHANGED response
    /\ UNCHANGED <<mainVars, body, calls>>

\* let output_json = match format(tokens, Format::Json)
FormatOutput(r) ==
    /\ rpc[r] = "tokenized"
    /\ calls' = [calls EXCEPT ![r] = Bump(@, "format")]
    /\ IF tokenizer.dict[body[r].len] = "format_err"
       THEN /\ rpc' = [rpc EXCEPT ![r] = "done"]
            /\ response' = [response EXCEPT ![r] = ErrorJson(body[r], "format")]
       ELSE /\ rpc' = [rpc EXCEPT ![r] = "formatted"]
            /\ UNCHANGED response
    /\ UNCHANGED <<mainVars, body>>

\* let json_value = serde_json::from_str(&output_json).unwrap(); Json(json_value)
ParseOutput(r) ==
    /\ rpc[r] = "formatted"
    /\ calls' = [calls EXCEPT ![r] = Bump(@, "parse")]
    /\ IF tokenizer.dict[body[r].len] = "not_json"
       THEN /\ rpc' = [rpc EXCEPT ![r] = "panicked"]
            /\ UNCHANGED response
       ELSE /\ rpc' = [rpc EXCEPT ![r] = "done"]
            /\ response' = [response EXCEPT ![r] = ValueJson(body[r])]
    /\ UNCHANGED <<mainVars, body>>

\* how the handler reaches the engine: Extension<Arc<Tokenizer>>, shared and
\* read-only; the code has no Mutex around it and no parameter selecting one
SharingPolicies == {"shared-immutable"}

-----------------------------------------------------------------------------
(* Specifications *)

\* the service: the build the help text names ("local and ipadic are
\* available"), started with the defaults or with one parameter unsupported
ServiceArgs ==
    {a \in [host : HostArgs, dict_type : {"ipadic", "jumandic"}, dict : {None},
            user_dict : {None}, user_dict_type : {None, "binary"},
            mode : {"normal", "fast"}] : Differs(a) <= 1}

Init == InitWith({{"ipadic"}}, ServiceArgs)

Next ==
    \/ MatchDictType
    \/ MatchUserDictType
    \/ MatchMode
    \/ CreateTokenizer
    \/ ParseAddr
    \/ Bind
    \/ \E r \in Requests : Arrive(r)
    \/ \E r \in Requests : Decode(r)
    \/ \E r \in Requests : TokenizeCall(r)
    \/ \E r \in Requests : TokenizeReturn(r)
    \/ \E r \in Requests : FormatOutput(r)
    \/ \E r \in Requests : ParseOutput(r)

Spec == Init /\ [][Next]_vars

\* startup alone, over every build and every command line of the model
InitStartup == InitWith(SUBSET FeatureKinds, {a \in AllArgs : a.host = DefaultArgs.host})

NextStartup ==
    \/ MatchDictType
    \/ MatchUserDictType
    \/ MatchMode
    \/ CreateTokenizer

SpecStartup == InitStartup /\ [][NextStartup]_vars

-----------------------------------------------------------------------------
(* Claims *)

\* the raw parameters are ones the spec calls resolvable
RawDictTypeOk == args.dict_type \in features \cup {"local"}
RawUserDictTypeOk == args.user_dict_type \in {None, "csv", "bin"}
RawModeOk == args.mode \in {"normal", "search", "decompose"}

Finished == {"done", "panicked", "rejected"}

\* C1: the socket is bound, and a request served, only after the three
\* parameters resolved and Tokenizer::with_config succeeded; once main has
\* returned an error (Args or engine construction) the socket is not bound and
\* no request has been touched.
C1_BindOnlyAfterSuccess ==
    /\ (bound \/ \E r \in Requests : rpc[r] # "idle") =>
          /\ RawDictTypeOk /\ RawUserDictTypeOk /\ RawModeOk
          /\ constructed = 1
          /\ tokenizer # NoTokenizer
          /\ exitErr = "none"
    /\ (exitErr # "none" \/ ~(RawDictTypeOk /\ RawUserDictTypeOk /\ RawModeOk)) =>
          /\ ~bound
          /\ mpc # "serving"
          /\ \A r \in Requests : rpc[r] = "idle"

C1_Witness == exitErr = "Engine" /\ mpc = "exit_err" /\ constructed = 1 /\ ~bound

\* C2: no request that reached the handler ends in a panic: each one that has
\* left the handler has a response that is the formatted result or an error.
C2_NoRequestPanics ==
    \A r \in Requests :
        /\ rpc[r] # "panicked"
        /\ rpc[r] = "done" => response[r].kind \in {"json", "error"}

\* C3: decode, tokenize and format run in this order, each at most once per
\* request; the first failing stage answers 200 with an error and nothing runs
\* after it: not tokenize or format after a decode failure, not format (and no
\* second tokenize) after a tokenize failure.
C3_StagesInOrderOnce ==
    \A r \in Requests :
        /\ calls[r].decode <= 1 /\ calls[r].tokenize <= 1 /\ calls[r].format <= 1
        /\ calls[r].tokenize = 1 => calls[r].decode = 1 /\ body[r].utf8
        /\ calls[r].format = 1 =>
              calls[r].tokenize = 1 /\ tokenizer.dict[body[r].len] # "tokenize_err"
        /\ (calls[r].decode = 1 /\ ~body[r].utf8) =>
              /\ rpc[r] = "done"
              /\ response[r].status = 200 /\ response[r].kind = "error"
              /\ calls[r].tokenize = 0 /\ calls[r].format = 0
        /\ (calls[r].tokenize = 1 /\ rpc[r] # "tokenizing"
              /\ tokenizer.dict[body[r].len] = "tokenize_err") =>
              /\ rpc[r] = "done"
              /\ response[r].status = 200 /\ response[r].kind = "error"
              /\ calls[r].format = 0

C3_Witness ==
    \E r \in Requests :
        /\ ~body[r].utf8 /\ rpc[r] = "done" /\ calls[r].decode = 1
        /\ response[r].status = 200 /\ response[r].kind = "error"

\* C4 as stated: a body of 5,120,000 bytes or more is never decoded or
\* tokenized and gets no formatted result.
C4_AtOrOverLimitNeverHandled ==
    \A r \in Requests :
        body[r].len >= 5120000 =>
            /\ calls[r].decode = 0 /\ calls[r].tokenize = 0
            /\ response[r].kind # "json"

\* C4 amended: a body of more than 5,120,000 bytes is rejected by the extractor:
\* it is never decoded or tokenized and gets no 200 response; a body of
\* exactly 5,120,000 bytes is handed to the handler.
C4_OverLimitNeverHandled ==
    \A r \in Requests :
        /\ body[r].len > 5120000 =>
              /\ rpc[r] = "rejected"
              /\ calls[r] = NoCalls
              /\ response[r].status # 200 /\ response[r].kind # "json"
        /\ (rpc[r] # "idle" /\ body[r].len <= 5120000) => rpc[r] # "rejected"

C4_Witness ==
    \E r \in Requests, q \in Requests :
        /\ body[r].len > 5120000 /\ rpc[r] = "rejected"
        /\ body[q].len = 5120000 /\ rpc[q] = "done" /\ response[q].kind = "json"

\* C5: with a dictionary kind that is neither compiled in nor local, or a user
\* dictionary type given and not csv or bin, or a mode not normal, search or
\* decompose, main gets no further than the match that rejects it, ends with the
\* Args error, and never calls Tokenizer::with_config -- whatever the other
\* parameters are.
C5_BadParameterFailsResolution ==
    /\ ~RawDictTypeOk => mpc \in {"dict_type", "exit_err"}
    /\ ~RawUserDictTypeOk => mpc \in {"dict_type", "user_dict_type", "exit_err"}
    /\ ~RawModeOk => mpc \in {"dict_type", "user_dict_type", "mode", "exit_err"}
    /\ ~(RawDictTypeOk /\ RawUserDictTypeOk /\ RawModeOk) =>
          /\ constructed = 0
          /\ tokenizer = NoTokenizer
          /\ mpc = "exit_err" => exitErr = "Args"

C5_Witness ==
    /\ mpc = "exit_err" /\ exitErr = "Args" /\ constructed = 0
    /\ RawDictTypeOk /\ RawUserDictTypeOk /\ ~RawModeOk
    /\ args.dict_type = "local" /\ args.dict = "/path" /\ args.user_dict_type = "bin"

\* C6: a Config that reaches Tokenizer::with_config with kind local carries a
\* dictionary path (resolution has failed when none was given).
C6_LocalImpliesPath ==
    (mpc = "create_tokenizer" /\ config.dict_type = "LocalDictionary") =>
        config.dict_path # None

\* the parameters C7 calls valid
C7_Valid ==
    /\ \/ args.dict_type \in features
       \/ args.dict_type = "local" /\ args.dict # None
    /\ RawUserDictTypeOk
    /\ RawModeOk

\* the Config values the parameters name
C7_KindNamed ==
    CASE args.dict_type = "ipadic" -> "Ipadic"
      [] args.dict_type = "unidic" -> "Unidic"
      [] args.dict_type = "ko-dic" -> "Kodic"
      [] args.dict_type = "cc-cedict" -> "Cedict"
      [] OTHER -> "LocalDictionary"

C7_UserDictTypeNamed == IF args.user_dict_type = "bin" THEN "Binary" ELSE "Csv"

C7_FieldsBut(mode) ==
    /\ exitErr = "none"
    /\ mpc \in {"dict_type", "user_dict_type", "mode", "create_tokenizer", "parse_addr"}
    /\ mpc \in {"create_tokenizer", "parse_addr"} =>
          /\ config.dict_type = C7_KindNamed
          /\ config.dict_path = (IF args.dict_type = "local" THEN args.dict ELSE None)
          /\ config.user_dict_path = args.user_dict
          /\ config.user_dict_type = C7_UserDictTypeNamed
          /\ config.mode = mode

\* C7 as stated: valid parameters resolve without error, and the Config holds
\* the kind, the user dictionary type and the mode that were given or defaulted
\* (mode search is held as search).
C7_ConfigHoldsGivenValues ==
    (C7_Valid /\ exitErr # "Engine") =>
        C7_FieldsBut(CASE args.mode = "normal" -> "Normal"
                       [] args.mode = "search" -> "Search"
                       [] OTHER -> "Decompose")

\* C7 amended: valid parameters resolve without error, and the Config holds the
\* kind and the user dictionary type given or defaulted; its mode is Normal for
\* normal and Decompose (default penalty) for search as well as for decompose.
C7_ConfigHoldsResolvedValues ==
    (C7_Valid /\ exitErr # "Engine") =>
        C7_FieldsBut(IF args.mode = "normal" THEN "Normal" ELSE "Decompose")

C7_Witness ==
    /\ mpc = "create_tokenizer" /\ args.mode = "search" /\ config.mode = "Decompose"
    /\ args.user_dict_type = "bin" /\ config.user_dict_type = "Binary"
    /\ args.dict_type = "ko-dic" /\ config.dict_type = "Kodic"

SwapMode(a) ==
    [a EXCEPT !.mode = CASE @ = "search" -> "decompose"
                         [] @ = "decompose" -> "search"
                         [] OTHER -> @]

\* C10: with the other parameters fixed, search and decompose resolve to the
\* same Config: the Config main hands to with_config, and the one the engine
\* was built from, is the Config the other of the two modes resolves to.
C10_SearchIsDecompose ==
    args.mode \in {"search", "decompose"} =>
        /\ mpc = "create_tokenizer" =>
              /\ Resolve(features, SwapMode(args)).ok
              /\ config = Resolve(features, SwapMode(args)).config
        /\ tokenizer # NoTokenizer =>
              tokenizer.config = Resolve(features, SwapMode(args)).config

C10_Witness ==
    /\ args.mode = "search" /\ tokenizer # NoTokenizer
    /\ tokenizer.config.mode = "Decompose"
    /\ tokenizer.config = Resolve(features, [args EXCEPT !.mode = "decompose"]).config

=============================================================================
